---- MODULE Spec2Model ----
(***************************************************************************)
(* Model of CharmSoftwareInventoryCollectorCharm (src/src/charm.py).       *)
(*                                                                         *)
(* One charm instance receives lifecycle events one at a time.  Every      *)
(* handler is one action; the methods it calls (snap_path, run_collector,  *)
(* render_config, assess_status) are operators over a record of the        *)
(* charm's mutable state, composed the way the handler composes them.  A   *)
(* raised exception is the field exc of that record: once it is set the    *)
(* rest of the handler is skipped, as the exception leaves the handler.    *)
(*                                                                         *)
(* Python values: None is the empty tuple, a str s is the tuple <<s>>.     *)
(* YAML nodes: null is <<"null">>, a string scalar s is <<"str", s>>.      *)
(***************************************************************************)
EXTENDS Naturals, Sequences, FiniteSets, TLC

(***************************************************************************)
(* Bounds of the model.                                                    *)
(***************************************************************************)
\* Units present at one time, over all 'inventory-exporter' relations.
MaxUnits == 2
\* Units present at one time when every handler of the charm is exercised.
MaxPeers == 1

(***************************************************************************)
(* Program constants.                                                      *)
(***************************************************************************)
COLLECTOR_SNAP == "software-inventory-collector"
CONFIG_PATH == "/var/snap/software-inventory-collector/current/collector.yaml"
RESOURCE_NAME == "collector-snap"
\* The path resources.fetch returns for an attached resource.
ResourcePath == "/resources/collector-snap"

ReadyMessage == "Unit ready."
BlockedMessage == "Collector is unable to run. Please see logs."
CollectedMessage == "Collection completed."
CollectFailedMessage == "Collection failed. See logs for more info."

ActiveStatus(msg) == <<"active", msg>>
BlockedStatus(msg) == <<"blocked", msg>>
\* The status of a unit no handler of this charm has set yet.
MaintenanceStatus == <<"maintenance", "">>

(***************************************************************************)
(* Python values.                                                          *)
(***************************************************************************)
None == <<>>
Str(s) == <<s>>

\* dict.get(key): the value, or None when the key is missing.
Get(d, k) == IF k \in DOMAIN d THEN Str(d[k]) ELSE None

\* dict.get(key, default)
GetDefault(d, k, default) == IF k \in DOMAIN d THEN Str(d[k]) ELSE Str(default)

\* What an f-string writes for a value: str(None) is the text "None".
Format(v) == IF v = None THEN "None" ELSE v[1]

\* bool(v) of an Optional[str]: None and "" are false.
Truthy(v) == v # None /\ v # Str("")

(***************************************************************************)
(* Inputs: charm configuration, relation data, the attached resource, the  *)
(* agent process and the filesystem.                                       *)
(***************************************************************************)
\* Option sets the operator can have in force.  An option that is not set
\* is missing from the mapping.
ConfigA ==
  [customer |-> "acme", site |-> "dc1", collection_path |-> "/tmp/output",
   juju_ca_cert |-> "Q0VSVA==", juju_endpoint |-> "10.0.0.1:17070",
   juju_username |-> "admin", juju_password |-> "pass"]

\* Only customer and site are set.
ConfigB == [customer |-> "globex", site |-> "dc2"]

\* juju_ca_cert is not base64 (incorrect padding).
ConfigBadBase64 == [ConfigA EXCEPT !.juju_ca_cert = "abc"]

\* juju_ca_cert is base64 of the byte 0xff, which is not UTF-8.
ConfigBadUtf8 == [ConfigA EXCEPT !.juju_ca_cert = "/w=="]

ConfigChoices == {ConfigA, ConfigB, ConfigBadBase64, ConfigBadUtf8}

RenderConfigChoices == {ConfigA, ConfigB, ConfigBadBase64}

\* Relation data a related unit can advertise.
DataFull ==
  [x \in {"private-address", "port", "hostname", "model"} |->
     CASE x = "private-address" -> "10.0.0.5"
       [] x = "port" -> "8765"
       [] x = "hostname" -> "juju-exporter-0"
       [] x = "model" -> "inventory-collector"]

\* private-address and model are missing.
DataNoAddress ==
  [x \in {"port", "hostname"} |->
     CASE x = "port" -> "9100"
       [] x = "hostname" -> "juju-exporter-1"]

\* port and hostname are missing.
DataNoPort ==
  [x \in {"private-address", "model"} |->
     CASE x = "private-address" -> "10.0.0.7"
       [] x = "model" -> "other-model"]

DataChoices == {DataFull, DataNoAddress, DataNoPort}

\* Ids of the 'inventory-exporter' relations, in the order model.relations
\* lists them.
RelIds == {1, 2}

\* The 'collector-snap' resource as the first lookup finds it.
\*   absent       not attached: resources.fetch raises ModelError
\*   model_error  the lookup itself fails with ModelError
\*   empty        attached, a zero-length file
\*   nonempty     attached, size greater than zero
\*   size_error   attached, os.path.getsize raises OSError
ResourceStates == {"absent", "model_error", "empty", "nonempty", "size_error"}

\* How one invocation of the agent ends.
\*   exit0          exit status 0, the output is UTF-8 text
\*   exit0_not_utf8 exit status 0, the output is bytes that are not UTF-8
\*   exit_nonzero   check_output raises CalledProcessError
\*   spawn_error    the executable is not there: check_output raises
\*                  FileNotFoundError
\*   spawn_denied   the executable may not be run: check_output raises
\*                  PermissionError
ProcessOutcomes ==
  {"exit0", "exit0_not_utf8", "exit_nonzero", "spawn_error", "spawn_denied"}

\* How the package manager answers one install or upgrade-charm event.
\*   ok            its calls return
\*   install_error snap.install_local or Snap.ensure raises SnapError
\*   cache_error   SnapCache()[COLLECTOR_SNAP] raises SnapNotFoundError
InstallOutcomes == {"ok", "install_error", "cache_error"}

\* How writing the configuration file goes.
\*   ok           the file is written
\*   open_error   open(CONFIG_PATH, "w") raises OSError
\*   write_error  the file is opened (truncated) and the write raises OSError
FsOutcomes == {"ok", "open_error", "write_error"}

VARIABLES
  config,      \* self.config: option name -> value
  relations,   \* relation id -> sequence of unit data, in enumeration order
  resource,    \* the 'collector-snap' resource, one of ResourceStates
  conf_file,   \* the content of CONFIG_PATH
  status,      \* self.unit.status
  _snap_path,   \* self._snap_path
  _is_snap_path_cached,  \* self._is_snap_path_cached
  fetch_calls, \* invocations of model.resources.fetch so far
  ev           \* the handler that has just run: its kind, calls and outcome

vars == <<config, relations, resource, conf_file, status, _snap_path,
          _is_snap_path_cached, fetch_calls, ev>>


(***************************************************************************)
(* The charm's mutable state while a handler runs.  calls lists, in order, *)
(* what the handler calls, each <<name, argument>>: the charm's methods    *)
(* render_config and assess_status, and the calls that leave the charm     *)
(* (fetch, getsize, install_local, ensure, open, check_output, set_status, *)
(* set_results, fail).                                                     *)
(***************************************************************************)
Charm ==
  [conf_file |-> conf_file, status |-> status, _snap_path |-> _snap_path,
   _is_snap_path_cached |-> _is_snap_path_cached, fetch_calls |-> fetch_calls,
   calls |-> <<>>, exc |-> "none", success |-> FALSE]

Call(c, name, arg) == [c EXCEPT !.calls = Append(@, <<name, arg>>)]

Raise(c, error) == [c EXCEPT !.exc = error]

Raised(c) == c.exc # "none"

(***************************************************************************)
(* snap_path                                                               *)
(***************************************************************************)
\* os.path.getsize of the fetched file.
ResourceSize(res) == IF res = "empty" THEN 0 ELSE 10

\* The size check with >= in place of >: an empty file keeps its path.
SizeCheckKeepsEmpty(c, res) ==
  LET stored == Call([c EXCEPT !._snap_path = Str(ResourcePath)],
                     "getsize", ResourcePath)
  IN  IF res = "size_error"
        THEN Raise(stored, "OSError")
        ELSE IF ~(ResourceSize(res) >= 0)
               THEN [stored EXCEPT !._snap_path = None]
               ELSE stored

\* The body of the try statement once fetch has returned: the path is
\* stored first, then the size check clears it or raises.
SizeCheck(c, res) ==
  LET stored == Call([c EXCEPT !._snap_path = Str(ResourcePath)],
                     "getsize", ResourcePath)
  IN  IF res = "size_error"
        THEN Raise(stored, "OSError")
        ELSE IF ~(ResourceSize(res) > 0)
               THEN [stored EXCEPT !._snap_path = None]
               ELSE stored

\* The lookup without the finally clause: a lookup that raised is not cached.
LookupUncachedOnError(c, res) ==
  LET fetching == Call([c EXCEPT !.fetch_calls = @ + 1], "fetch", RESOURCE_NAME)
  IN  IF res \in {"absent", "model_error"}
        THEN [fetching EXCEPT !._snap_path = None]
        ELSE [SizeCheck(fetching, res) EXCEPT !._is_snap_path_cached = TRUE]

\* The lookup of an uncached path: try / except ModelError / finally.
Lookup(c, res) ==
  LET fetching == Call([c EXCEPT !.fetch_calls = @ + 1], "fetch", RESOURCE_NAME)
      tried == IF res \in {"absent", "model_error"}
                 THEN [fetching EXCEPT !._snap_path = None]
                 ELSE SizeCheck(fetching, res)
  IN  [tried EXCEPT !._is_snap_path_cached = TRUE]

\* The property: its value is c.snap_path of the result, unless it raised.
snap_path(c, res) == IF ~c._is_snap_path_cached THEN Lookup(c, res) ELSE c

(***************************************************************************)
(* run_collector                                                           *)
(***************************************************************************)
\* The command line with --dry-run added whatever dry_run is.
CommandAlwaysDryRun(dry_run) ==
  <<COLLECTOR_SNAP, "-c", CONFIG_PATH>> \o <<"--dry-run">>

Command(dry_run) ==
  <<COLLECTOR_SNAP, "-c", CONFIG_PATH>>
    \o (IF dry_run THEN <<"--dry-run">> ELSE <<>>)

\* Only CalledProcessError is caught.  After exit status 0 the captured
\* output is decoded as UTF-8 for the debug log, whatever the log level,
\* outside the try block: output that does not decode raises.
run_collector(c, dry_run, proc) ==
  LET ran == Call(c, "check_output", Command(dry_run))
  IN  CASE proc = "exit0" -> [ran EXCEPT !.success = TRUE]
        [] proc = "exit0_not_utf8" -> Raise(ran, "UnicodeDecodeError")
        [] proc = "exit_nonzero" -> [ran EXCEPT !.success = FALSE]
        [] proc = "spawn_error" -> Raise(ran, "FileNotFoundError")
        [] proc = "spawn_denied" -> Raise(ran, "PermissionError")

(***************************************************************************)
(* assess_status                                                           *)
(***************************************************************************)
SetStatus(c, s) == Call([c EXCEPT !.status = s], "set_status", s)

\* assess_status with the result of the probe ignored.
assess_status_always_ready(c, proc) ==
  LET probed == run_collector(Call(c, "assess_status", <<>>), TRUE, proc)
  IN  IF Raised(probed)
        THEN probed
        ELSE SetStatus(probed, ActiveStatus(ReadyMessage))

assess_status(c, proc) ==
  LET probed == run_collector(Call(c, "assess_status", <<>>), TRUE, proc)
  IN  IF Raised(probed)
        THEN probed
        ELSE IF probed.success
               THEN SetStatus(probed, ActiveStatus(ReadyMessage))
               ELSE SetStatus(probed, BlockedStatus(BlockedMessage))

(***************************************************************************)
(* _on_install                                                             *)
(***************************************************************************)
\* The collector property: a new SnapCache, indexed by the snap's name.
\* When the package manager does not know the snap the lookup raises.
collector(c, inst) ==
  LET looked == Call(c, "SnapCache", COLLECTOR_SNAP)
  IN  IF inst = "cache_error" THEN Raise(looked, "SnapNotFoundError") ELSE looked

\* The install branch.  Nothing here catches an error: a failing lookup in
\* the cache ends the handler before ensure is called, a failing
\* install_local or ensure ends it after the call.  The local branch does
\* not use the cache.
InstallStep(c, res, inst) ==
  IF Truthy(c._snap_path)
    THEN LET again == snap_path(c, res)
             called == Call(again, "install_local", <<again._snap_path, "dangerous">>)
         IN  IF Raised(again)
               THEN again
               ELSE IF inst = "install_error" THEN Raise(called, "SnapError") ELSE called
    ELSE LET cache == collector(c, inst)
             called == Call(cache, "ensure", <<COLLECTOR_SNAP, "latest">>)
         IN  IF Raised(cache)
               THEN cache
               ELSE IF inst = "install_error" THEN Raise(called, "SnapError") ELSE called

_on_install(c, res, proc, inst) ==
  LET read == snap_path(c, res)
      installed == IF Raised(read) THEN read ELSE InstallStep(read, res, inst)
  IN  IF Raised(installed) THEN installed ELSE assess_status(installed, proc)

(***************************************************************************)
(* _on_collect_action                                                      *)
(***************************************************************************)
\* _on_collect_action that also blocks the unit when the collection fails.
_on_collect_action_blocks(c, proc) ==
  LET ran == run_collector(c, FALSE, proc)
  IN  IF Raised(ran)
        THEN ran
        ELSE IF ran.success
               THEN Call(ran, "set_results", <<"result", CollectedMessage>>)
               ELSE [Call(ran, "fail", CollectFailedMessage)
                       EXCEPT !.status = BlockedStatus(BlockedMessage)]

_on_collect_action(c, proc) ==
  LET ran == run_collector(c, FALSE, proc)
  IN  IF Raised(ran)
        THEN ran
        ELSE IF ran.success
               THEN Call(ran, "set_results", <<"result", CollectedMessage>>)
               ELSE Call(ran, "fail", CollectFailedMessage)

(***************************************************************************)
(* render_config                                                           *)
(***************************************************************************)
\* b64decode(text).decode("UTF-8") of the juju_ca_cert values that occur:
\* the decoded text, or the error raised.
DecodeCert(text) ==
  CASE text = "" -> [error |-> "none", text |-> ""]
    [] text = "Q0VSVA==" -> [error |-> "none", text |-> "CERT"]
    [] text = "abc" -> [error |-> "binascii.Error", text |-> ""]
    [] text = "/w==" -> [error |-> "UnicodeDecodeError", text |-> ""]

\* The record appended for one unit of a relation.
Target(remote_data, customer, site) ==
  [endpoint |-> Str(Format(Get(remote_data, "private-address")) \o ":"
                      \o Format(Get(remote_data, "port"))),
   hostname |-> Get(remote_data, "hostname"),
   customer |-> customer,
   site |-> site,
   model |-> Get(remote_data, "model")]

\* for unit in relation.units
UnitTargets(units, customer, site) ==
  [i \in 1..Len(units) |-> Target(units[i], customer, site)]

\* self.model.relations.get("inventory-exporter", []): the relations in
\* the order of their ids.
RECURSIVE RelationList(_, _)
RelationList(rels, ids) ==
  IF ids = {}
    THEN <<>>
    ELSE LET first == CHOOSE r \in ids : \A q \in ids : r <= q
         IN  <<rels[first]>> \o RelationList(rels, ids \ {first})

\* The loop over the relations left after the first relation.
TargetsFirstRelation(relation_list, customer, site) ==
  IF relation_list = <<>>
    THEN <<>>
    ELSE UnitTargets(Head(relation_list), customer, site)

\* for relation in ...: config["targets"].append(...)
RECURSIVE Targets(_, _, _)
Targets(relation_list, customer, site) ==
  IF relation_list = <<>>
    THEN <<>>
    ELSE UnitTargets(Head(relation_list), customer, site)
           \o Targets(Tail(relation_list), customer, site)

\* The dictionary render_config builds; ca_cert is the decoded text.
Document(cfg, rels, ca_cert) ==
  [settings |->
     [collection_path |-> Get(cfg, "collection_path"),
      customer |-> Get(cfg, "customer"),
      site |-> Get(cfg, "site")],
   juju_controller |->
     [endpoint |-> Get(cfg, "juju_endpoint"),
      username |-> Get(cfg, "juju_username"),
      password |-> Get(cfg, "juju_password"),
      ca_cert |-> Str(ca_cert)],
   targets |-> Targets(RelationList(rels, DOMAIN rels),
                       Get(cfg, "customer"), Get(cfg, "site"))]

\* yaml.safe_dump of a scalar: None is written as null, a str as a string.
DumpScalar(v) == IF v = None THEN <<"null">> ELSE <<"str", v[1]>>

DumpMapping(m) == [k \in DOMAIN m |-> DumpScalar(m[k])]

\* yaml.safe_dump(config): the YAML document.
safe_dump(doc) ==
  [settings |-> DumpMapping(doc.settings),
   juju_controller |-> DumpMapping(doc.juju_controller),
   targets |-> [i \in 1..Len(doc.targets) |-> DumpMapping(doc.targets[i])]]

\* The content of a file that has not been written, and of one opened for
\* writing whose write failed.
NoFile == <<"missing">>
TruncatedFile == <<"truncated">>

\* A write that merges: the targets already in the file are kept.
WriteFileKeepsTargets(old, yaml) ==
  IF old[1] = "yaml"
    THEN <<"yaml", [yaml EXCEPT !.targets = old[2].targets \o @]>>
    ELSE <<"yaml", yaml>>

\* open(CONFIG_PATH, "w") and the dump into it: the old content is
\* dropped, the file holds the new document.
WriteFile(old, yaml) == <<"yaml", yaml>>

\* render_config opening the file before it decodes the certificate: a
\* certificate that does not decode leaves the file opened and empty.
render_config_opens_first(c, cfg, rels, fs) ==
  LET entered == Call(c, "render_config", <<>>)
      cert == DecodeCert(GetDefault(cfg, "juju_ca_cert", "")[1])
      opened == Call(entered, "open", <<CONFIG_PATH, "w">>)
  IN  CASE fs = "open_error" -> Raise(opened, "OSError")
        [] fs = "write_error" ->
             Raise([opened EXCEPT !.conf_file = TruncatedFile], "OSError")
        [] fs = "ok" ->
             IF cert.error # "none"
               THEN Raise([opened EXCEPT !.conf_file = TruncatedFile], cert.error)
               ELSE [opened EXCEPT !.conf_file =
                       WriteFile(c.conf_file,
                                 safe_dump(Document(cfg, rels, cert.text)))]

render_config(c, cfg, rels, fs) ==
  LET entered == Call(c, "render_config", <<>>)
      cert == DecodeCert(GetDefault(cfg, "juju_ca_cert", "")[1])
      opened == Call(entered, "open", <<CONFIG_PATH, "w">>)
  IN  IF cert.error # "none"
        THEN Raise(entered, cert.error)
        ELSE CASE fs = "open_error" -> Raise(opened, "OSError")
               [] fs = "write_error" ->
                    Raise([opened EXCEPT !.conf_file = TruncatedFile], "OSError")
               [] fs = "ok" ->
                    [opened EXCEPT !.conf_file =
                       WriteFile(c.conf_file,
                                 safe_dump(Document(cfg, rels, cert.text)))]

(***************************************************************************)
(* _reconfigure_snap                                                       *)
(***************************************************************************)
\* _reconfigure_snap with the two calls in the other order.
_reconfigure_snap_assess_first(c, cfg, rels, fs, proc) ==
  LET assessed == assess_status(c, proc)
  IN  IF Raised(assessed) THEN assessed ELSE render_config(assessed, cfg, rels, fs)

_reconfigure_snap(c, cfg, rels, fs, proc) ==
  LET rendered == render_config(c, cfg, rels, fs)
  IN  IF Raised(rendered) THEN rendered ELSE assess_status(rendered, proc)

(***************************************************************************)
(* The state machine.                                                      *)
(***************************************************************************)
NoEvent ==
  [kind |-> "none", calls |-> <<>>, exc |-> "none", success |-> FALSE,
   proc |-> "none", fs |-> "none", inst |-> "none"]

\* Whether the handler got as far as starting the agent.
Invoked(calls) == \E i \in 1..Len(calls) : calls[i][1] = "check_output"

\* A handler has run from Charm to c: the charm's fields take their new
\* values and ev records what the handler did, with the answers the event
\* was given: proc by the agent (when it was started), fs by the filesystem
\* and inst by the package manager ("none" for an event that has no use
\* for them).
Dispatch(kind, c, proc, fs, inst) ==
  /\ conf_file' = c.conf_file
  /\ status' = c.status
  /\ _snap_path' = c._snap_path
  /\ _is_snap_path_cached' = c._is_snap_path_cached
  /\ fetch_calls' = c.fetch_calls
  /\ ev' = [kind |-> kind, calls |-> c.calls, exc |-> c.exc,
            success |-> c.success,
            proc |-> IF Invoked(c.calls) THEN proc ELSE "none",
            fs |-> fs, inst |-> inst]
  /\ UNCHANGED <<config, relations, resource>>

\* __init__: nothing cached, no handler has run.  The resource is as the
\* deployment attached it and stays so for the life of the instance.
Init ==
  /\ config = ConfigB
  /\ relations = [r \in RelIds |-> <<>>]
  /\ resource \in ResourceStates
  /\ conf_file = NoFile
  /\ status = MaintenanceStatus
  /\ _snap_path = None
  /\ _is_snap_path_cached = FALSE
  /\ fetch_calls = 0
  /\ ev = NoEvent

\* ---- the environment ----------------------------------------------------
CharmUnchanged ==
  UNCHANGED <<resource, conf_file, status, _snap_path, _is_snap_path_cached,
              fetch_calls>>

RECURSIVE CountUnits(_)
CountUnits(relation_list) ==
  IF relation_list = <<>>
    THEN 0
    ELSE Len(Head(relation_list)) + CountUnits(Tail(relation_list))

TotalUnits == CountUnits(RelationList(relations, RelIds))

InsertAt(seq, pos, x) == SubSeq(seq, 1, pos - 1) \o <<x>> \o SubSeq(seq, pos, Len(seq))

RemoveAt(seq, pos) == SubSeq(seq, 1, pos - 1) \o SubSeq(seq, pos + 1, Len(seq))

\* The operator sets the charm's options.
SetConfig(cfg) ==
  /\ cfg # config
  /\ config' = cfg
  /\ ev' = NoEvent
  /\ UNCHANGED relations
  /\ CharmUnchanged

\* A unit joins relation r; relation.units then enumerates it at pos.
\* No handler observes relation-joined.
UnitJoins(r, pos, data, max) ==
  /\ TotalUnits < max
  /\ pos \in 1..(Len(relations[r]) + 1)
  /\ relations' = [relations EXCEPT ![r] = InsertAt(@, pos, data)]
  /\ ev' = NoEvent
  /\ UNCHANGED config
  /\ CharmUnchanged

\* A related unit rewrites its relation data.
UnitSetsData(r, pos, data) ==
  /\ pos \in 1..Len(relations[r])
  /\ relations[r][pos] # data
  /\ relations' = [relations EXCEPT ![r][pos] = data]
  /\ ev' = NoEvent
  /\ UNCHANGED config
  /\ CharmUnchanged

\* A unit leaves relation r.
UnitDeparts(r, pos) ==
  /\ pos \in 1..Len(relations[r])
  /\ relations' = [relations EXCEPT ![r] = RemoveAt(@, pos)]
  /\ ev' = NoEvent
  /\ UNCHANGED config
  /\ CharmUnchanged

\* ---- the events ---------------------------------------------------------
ConfigChanged(fs, proc) ==
  Dispatch("config_changed",
           _reconfigure_snap(Charm, config, relations, fs, proc),
           proc, fs, "none")

RelationChanged(fs, proc) ==
  Dispatch("inventory_exporter_relation_changed",
           _reconfigure_snap(Charm, config, relations, fs, proc),
           proc, fs, "none")

RelationDeparted(fs, proc) ==
  Dispatch("inventory_exporter_relation_departed",
           _reconfigure_snap(Charm, config, relations, fs, proc),
           proc, fs, "none")

Install(proc, inst) ==
  Dispatch("install",
           _on_install(Charm, resource, proc, inst),
           proc, "none", inst)

UpgradeCharm(proc, inst) ==
  Dispatch("upgrade_charm",
           _on_install(Charm, resource, proc, inst),
           proc, "none", inst)

CollectAction(proc) ==
  Dispatch("collect_action", _on_collect_action(Charm, proc),
           proc, "none", "none")

\* A read of the snap_path property outside any handler.
ReadSnapPath ==
  Dispatch("snap_path", snap_path(Charm, resource), "none", "none", "none")

\* The events that end in _reconfigure_snap, the filesystem behaving in one
\* of the ways of outcomes.
Reconfigure(outcomes) ==
  \/ \E fs \in outcomes, proc \in ProcessOutcomes : ConfigChanged(fs, proc)
  \/ \E fs \in outcomes, proc \in ProcessOutcomes : RelationChanged(fs, proc)
  \/ \E fs \in outcomes, proc \in ProcessOutcomes : RelationDeparted(fs, proc)

\* The whole charm.  Its related units all advertise the full data.
Next ==
  \/ \E cfg \in ConfigChoices : SetConfig(cfg)
  \/ \E r \in RelIds, pos \in 1..MaxPeers : UnitJoins(r, pos, DataFull, MaxPeers)
  \/ \E r \in RelIds, pos \in 1..MaxPeers : UnitDeparts(r, pos)
  \/ Reconfigure(FsOutcomes)
  \/ \E proc \in ProcessOutcomes, inst \in InstallOutcomes : Install(proc, inst)
  \/ \E proc \in ProcessOutcomes, inst \in InstallOutcomes : UpgradeCharm(proc, inst)
  \/ \E proc \in ProcessOutcomes : CollectAction(proc)
  \/ ReadSnapPath

Spec == Init /\ [][Next]_vars

\* Reconfiguration alone, over every relation data and up to MaxUnits
\* units: no resource is attached, only the events that render occur and
\* the configuration file can be written.
InitRender == Init /\ resource = "absent"

NextRender ==
  \/ \E cfg \in RenderConfigChoices : SetConfig(cfg)
  \/ \E r \in RelIds, pos \in 1..MaxUnits, data \in DataChoices :
       UnitJoins(r, pos, data, MaxUnits)
  \/ \E r \in RelIds, pos \in 1..MaxUnits, data \in DataChoices :
       UnitSetsData(r, pos, data)
  \/ \E r \in RelIds, pos \in 1..MaxUnits : UnitDeparts(r, pos)
  \/ Reconfigure({"ok"})

SpecRender == InitRender /\ [][NextRender]_vars

(***************************************************************************)
(* What the handler that has just run did.                                 *)
(***************************************************************************)
ReconfigureKinds ==
  {"config_changed", "inventory_exporter_relation_changed",
   "inventory_exporter_relation_departed"}

InstallKinds == {"install", "upgrade_charm"}

\* The positions in ev.calls of the calls named name.
CallsOf(name) == {i \in 1..Len(ev.calls) : ev.calls[i][1] = name}

Count(name) == Cardinality(CallsOf(name))

\* Every call named first comes before every call named second.
Before(first, second) ==
  \A i \in CallsOf(first), j \in CallsOf(second) : i < j

\* The handler returned instead of raising.
Completed == ev.kind # "none" /\ ev.exc = "none"

DryRunCommand == <<COLLECTOR_SNAP, "-c", CONFIG_PATH, "--dry-run">>

FullRunCommand == <<COLLECTOR_SNAP, "-c", CONFIG_PATH>>

(***************************************************************************)
(* C1: run_collector never lets an error escape.  However the agent       *)
(* invocation fails, a handler that has started the agent returns          *)
(* normally and has reached its status step (assess_status) or its         *)
(* action-result step (the collect action).                                *)
(***************************************************************************)
C1_NoErrorEscapes ==
  Invoked(ev.calls) =>
    /\ ev.exc = "none"
    /\ IF ev.kind = "collect_action"
         THEN Count("set_results") + Count("fail") = 1
         ELSE Count("set_status") = 1

(***************************************************************************)
(* C2: a completed assess_status has run exactly one probe, a dry run,     *)
(* and has set the status to ready("Unit ready.") if the probe returned    *)
(* true and to blocked("Collector is unable to run. Please see logs.")     *)
(* otherwise; assess_status never starts a collection that is not a dry    *)
(* run.                                                                    *)
(***************************************************************************)
C2_AssessStatus ==
  Count("assess_status") > 0 =>
    /\ Count("assess_status") = 1
    /\ Count("check_output") = 1
    /\ \A i \in CallsOf("check_output") : ev.calls[i][2] = DryRunCommand
    /\ Completed =>
         /\ Count("set_status") = 1
         /\ \A i \in CallsOf("set_status") : ev.calls[i][2] = status
         /\ ev.success => status = <<"active", "Unit ready.">>
         /\ ~ev.success =>
              status = <<"blocked", "Collector is unable to run. Please see logs.">>

\* A completed assessment whose probe failed has blocked the unit.
C2_Witness ==
  /\ ev.kind = "install"
  /\ Completed
  /\ ~ev.success
  /\ status = <<"blocked", "Collector is unable to run. Please see logs.">>

(***************************************************************************)
(* C3: config-changed, relation-changed and relation-departed are handled  *)
(* alike.  Each calls render_config exactly once, first; a handler that    *)
(* returns has then called assess_status exactly once and nothing else;    *)
(* and whenever the dry-run probe is started, the configuration file has   *)
(* been opened and written in this same event and holds the document of    *)
(* the configuration and relation data in force.                           *)
(***************************************************************************)
C3_RenderThenAssess ==
  ev.kind \in ReconfigureKinds =>
    /\ Count("render_config") = 1
    /\ ev.calls[1][1] = "render_config"
    /\ Count("assess_status") <= 1
    /\ Before("render_config", "assess_status")
    /\ Before("open", "assess_status")
    /\ Count("fetch") + Count("install_local") + Count("ensure") = 0
    /\ Completed => Count("assess_status") = 1
    /\ Invoked(ev.calls) =>
         /\ Count("open") = 1
         /\ Before("open", "check_output")
         /\ conf_file =
              <<"yaml",
                safe_dump(Document(config, relations,
                                  DecodeCert(GetDefault(config, "juju_ca_cert", "")[1]).text))>>

\* A relation-departed event has rendered and then probed.
C3_Witness ==
  /\ ev.kind = "inventory_exporter_relation_departed"
  /\ Completed
  /\ ev.proc = "exit0"
  /\ conf_file[1] = "yaml"
  /\ TotalUnits = 1

(***************************************************************************)
(* C4: on install and upgrade-charm the collector is installed from the    *)
(* local artifact, in dangerous mode, exactly when the 'collector-snap'    *)
(* resource is attached with a size above zero.  When it is not attached,  *)
(* when its lookup raises a model error and when the file is empty,        *)
(* snap_path is None and the latest channel version is ensured instead.    *)
(* Either way one install step runs, and one status assessment follows it. *)
(***************************************************************************)
C4_InstallSource ==
  (ev.kind \in InstallKinds
     /\ resource \in {"absent", "model_error", "empty", "nonempty"}) =>
    /\ Count("install_local") + Count("ensure") = 1
    /\ Count("install_local") = 1 <=> resource = "nonempty"
    /\ \A i \in CallsOf("install_local") :
         ev.calls[i][2] = <<Str(ResourcePath), "dangerous">>
    /\ \A i \in CallsOf("ensure") : ev.calls[i][2] = <<COLLECTOR_SNAP, "latest">>
    /\ resource # "nonempty" => _snap_path = None
    /\ Count("assess_status") = 1
    /\ Before("install_local", "assess_status")
    /\ Before("ensure", "assess_status")

(***************************************************************************)
(* C4, with the package manager allowed to fail: the branch is chosen as  *)
(* above, and at most one install step is started.  On the local branch    *)
(* install_local is called once and the cache is not consulted; on the     *)
(* other branch the cache is looked up once and, unless the lookup         *)
(* raises, ensure is called once.  When the install step returns, exactly  *)
(* one status assessment follows it.  When the lookup in the cache or the  *)
(* install step raises, the error leaves the handler, no status assessment *)
(* runs and the unit status is the one it had before the event.            *)
(***************************************************************************)
InstallErrors == {"SnapError", "SnapNotFoundError"}

NamedResourceCases == {"absent", "model_error", "empty", "nonempty"}

C4_Branch ==
  (ev.kind \in InstallKinds /\ resource \in NamedResourceCases) =>
    /\ Count("install_local") + Count("ensure") <= 1
    /\ Count("install_local") = 1 <=> resource = "nonempty"
    /\ \A i \in CallsOf("install_local") :
         ev.calls[i][2] = <<Str(ResourcePath), "dangerous">>
    /\ \A i \in CallsOf("ensure") : ev.calls[i][2] = <<COLLECTOR_SNAP, "latest">>
    /\ resource = "nonempty" => Count("SnapCache") = 0
    /\ resource # "nonempty" =>
         /\ _snap_path = None
         /\ Count("SnapCache") = 1
         /\ Count("ensure") = 1 <=> ev.exc # "SnapNotFoundError"
         /\ Before("SnapCache", "ensure")
    /\ Count("assess_status") = (IF ev.exc \in InstallErrors THEN 0 ELSE 1)
    /\ ev.exc \in InstallErrors =>
         (Count("check_output") = 0 /\ Count("set_status") = 0)
    /\ Before("install_local", "assess_status")
    /\ Before("ensure", "assess_status")

\* The package manager's answer (ev'.inst, on a step of Install or
\* UpgradeCharm) decides how the event ends: what a failing answer raises
\* and leaves behind, and that no other answer raises it.
C4_InstallFails ==
  (ev'.kind \in InstallKinds /\ resource \in NamedResourceCases) =>
    LET failure ==
          CASE ev'.inst = "install_error" -> "SnapError"
            [] ev'.inst = "cache_error" /\ resource # "nonempty" -> "SnapNotFoundError"
            [] OTHER -> "none"
    IN  IF failure # "none"
          THEN ev'.exc = failure /\ status' = status
          ELSE ev'.exc \notin InstallErrors /\ Count("assess_status")' = 1

\* C4 amended: the branch follows the resource; an install step that
\* returns is followed by one assessment, one that raises by none.
C4_InstallSourceOrError == [](C4_Branch) /\ [][C4_InstallFails]_vars

\* An upgrade with an empty resource file has ensured the latest version.
C4_Witness ==
  /\ ev.kind = "upgrade_charm"
  /\ resource = "empty"
  /\ Count("ensure") = 1
  /\ Count("set_status") = 1

(***************************************************************************)
(* C5: the collect action starts the agent once, not as a dry run.  When   *)
(* run_collector returns true the action gets the result                   *)
(* {result: "Collection completed."} and is not failed; when it returns    *)
(* false the action is failed with "Collection failed. See logs for more   *)
(* info." and gets no result.  The action never changes the unit status.   *)
(***************************************************************************)
C5_CollectOutcome ==
  ev.kind = "collect_action" =>
    /\ Count("check_output") = 1
    /\ \A i \in CallsOf("check_output") : ev.calls[i][2] = FullRunCommand
    /\ Count("set_status") = 0
    /\ (Completed /\ ev.success) =>
         /\ ev.calls[Len(ev.calls)] = <<"set_results", <<"result", "Collection completed.">>>>
         /\ Count("set_results") = 1
         /\ Count("fail") = 0
    /\ (Completed /\ ~ev.success) =>
         /\ ev.calls[Len(ev.calls)] = <<"fail", "Collection failed. See logs for more info.">>
         /\ Count("fail") = 1
         /\ Count("set_results") = 0

C5_StatusKept ==
  (ev'.kind = "collect_action" /\ \E proc \in ProcessOutcomes : CollectAction(proc))
    => status' = status

\* C5: the collect action reports one outcome and leaves the unit status alone.
C5_CollectAction == [](C5_CollectOutcome) /\ [][C5_StatusKept]_vars

\* A ready unit is still ready after a collection that failed.
C5_Witness ==
  /\ ev.kind = "collect_action"
  /\ Completed
  /\ ~ev.success
  /\ Count("fail") = 1
  /\ status = <<"active", "Unit ready.">>

(***************************************************************************)
(* C6: run_collector starts exactly one command: the agent's name, -c and  *)
(* the configuration path, with --dry-run last exactly when dry_run is     *)
(* true (the probe of assess_status) and never otherwise (the collect      *)
(* action).  It returns true exactly when the process exits with status 0. *)
(***************************************************************************)
C6_RunCollector ==
  Invoked(ev.calls) =>
    /\ Count("check_output") = 1
    /\ \A i \in CallsOf("check_output") :
         ev.calls[i][2] =
           <<"software-inventory-collector", "-c",
             "/var/snap/software-inventory-collector/current/collector.yaml">>
             \o (IF ev.kind = "collect_action" THEN <<>> ELSE <<"--dry-run">>)
    /\ ev.proc \in {"exit0", "exit0_not_utf8"} => (ev.exc = "none" /\ ev.success)
    /\ ev.proc = "exit_nonzero" => (ev.exc = "none" /\ ~ev.success)
    /\ (ev.exc = "none" /\ ev.success) => ev.proc \in {"exit0", "exit0_not_utf8"}

\* A full run that exited with a status other than 0 has returned false.
C6_Witness ==
  /\ ev.kind = "collect_action"
  /\ ev.proc = "exit_nonzero"
  /\ Completed
  /\ ~ev.success

(***************************************************************************)
(* The units of the relations in the order render_config meets them, and   *)
(* the YAML node of a key of a mapping: null when the key is missing.      *)
(***************************************************************************)
AllUnits == relations[1] \o relations[2]

Scalar(d, k) == IF k \in DOMAIN d THEN <<"str", d[k]>> ELSE <<"null">>

\* render_config has returned in the handler that has just run.
RenderSucceeded == ev.kind \in ReconfigureKinds /\ Count("assess_status") = 1

(***************************************************************************)
(* C7: the targets written by render_config are one per unit present on   *)
(* the 'inventory-exporter' relations, N entries for N units and none      *)
(* without units.  The entry of a unit has the endpoint                    *)
(* "<private-address>:<port>", the hostname and the model of that unit's   *)
(* own relation data, and the customer and site of the charm's own         *)
(* configuration.                                                          *)
(***************************************************************************)
C7_Targets ==
  RenderSucceeded =>
    /\ conf_file[1] = "yaml"
    /\ Len(conf_file[2].targets) = Len(AllUnits)
    /\ TotalUnits = 0 => conf_file[2].targets = <<>>
    /\ \A i \in 1..Len(AllUnits) :
         LET unit == AllUnits[i]
             target == conf_file[2].targets[i]
         IN  /\ DOMAIN target = {"endpoint", "hostname", "customer", "site", "model"}
             /\ {"private-address", "port"} \subseteq DOMAIN unit =>
                  target.endpoint =
                    <<"str", unit["private-address"] \o ":" \o unit["port"]>>
             /\ target.hostname = Scalar(unit, "hostname")
             /\ target.model = Scalar(unit, "model")
             /\ target.customer = Scalar(config, "customer")
             /\ target.site = Scalar(config, "site")

\* Two units on two relations have been rendered as two targets.
C7_Witness ==
  /\ RenderSucceeded
  /\ relations[1] = <<DataNoPort>>
  /\ relations[2] = <<DataFull>>
  /\ config = ConfigA
  /\ Len(conf_file[2].targets) = 2
  /\ conf_file[2].targets[2].endpoint = <<"str", "10.0.0.5:8765">>

(***************************************************************************)
(* C8: a render replaces the whole document.  What a successful            *)
(* render_config has written is the document of the option values and of   *)
(* the relation units in force at that call and nothing else; a second     *)
(* render with the same inputs writes the same content.                    *)
(***************************************************************************)
C8_Document ==
  [settings |->
     [collection_path |-> Scalar(config, "collection_path"),
      customer |-> Scalar(config, "customer"),
      site |-> Scalar(config, "site")],
   juju_controller |->
     [endpoint |-> Scalar(config, "juju_endpoint"),
      username |-> Scalar(config, "juju_username"),
      password |-> Scalar(config, "juju_password"),
      ca_cert |-> IF "juju_ca_cert" \in DOMAIN config
                       /\ config.juju_ca_cert = "Q0VSVA=="
                    THEN <<"str", "CERT">>
                    ELSE <<"str", "">>],
   targets |->
     [i \in 1..Len(AllUnits) |->
        [endpoint |->
           <<"str", Format(Get(AllUnits[i], "private-address")) \o ":"
                      \o Format(Get(AllUnits[i], "port"))>>,
         hostname |-> Scalar(AllUnits[i], "hostname"),
         customer |-> Scalar(config, "customer"),
         site |-> Scalar(config, "site"),
         model |-> Scalar(AllUnits[i], "model")]]]

C8_Replaced == RenderSucceeded => conf_file = <<"yaml", C8_Document>>

C8_SameAgain ==
  (RenderSucceeded /\ RenderSucceeded' /\ UNCHANGED <<config, relations>>)
    => conf_file' = conf_file

\* C8: every render replaces the whole document, and renders the same again.
C8_FullyReplaced == [](C8_Replaced) /\ [][C8_SameAgain]_vars

\* A render after the last unit has left, under the options of ConfigB:
\* no target and no value of an option that is not set.
C8_Witness ==
  /\ RenderSucceeded
  /\ ev.kind = "inventory_exporter_relation_departed"
  /\ config = ConfigB
  /\ TotalUnits = 0
  /\ conf_file[2].targets = <<>>
  /\ conf_file[2].juju_controller.endpoint = <<"null">>

(***************************************************************************)
(* C9: when the relation data of a unit lacks private-address, port,       *)
(* hostname or model, render_config does not raise and every field of the  *)
(* unit's target that derives from a missing key, the endpoint included,   *)
(* is written as null or empty.                                            *)
(***************************************************************************)
C9_MissingKeysAreNull ==
  (ev.kind \in ReconfigureKinds /\ Count("open") = 1) =>
    /\ ev.exc \notin {"KeyError", "TypeError"}
    /\ RenderSucceeded =>
         \A i \in 1..Len(AllUnits) :
           LET unit == AllUnits[i]
               target == conf_file[2].targets[i]
               empty == {<<"null">>, <<"str", "">>}
           IN  /\ "hostname" \notin DOMAIN unit => target.hostname \in empty
               /\ "model" \notin DOMAIN unit => target.model \in empty
               /\ ~({"private-address", "port"} \subseteq DOMAIN unit) =>
                    target.endpoint \in empty

(***************************************************************************)
(* C10: snap_path is resolved once for the charm instance.  Whatever reads *)
(* it, the property or an install or upgrade handler, the resource lookup  *)
(* runs at most once, on the first read, also when that lookup raised a    *)
(* model error; every later read returns the cached value and looks up     *)
(* nothing.                                                                *)
(***************************************************************************)
C10_OneLookup ==
  /\ fetch_calls <= 1
  /\ _is_snap_path_cached <=> fetch_calls = 1
  /\ Count("fetch") <= 1
  /\ (ev.kind \in InstallKinds \cup {"snap_path"}) => _is_snap_path_cached

C10_CachedStays ==
  _is_snap_path_cached =>
    /\ _is_snap_path_cached'
    /\ fetch_calls' = fetch_calls
    /\ _snap_path' = _snap_path

\* C10: the resource lookup runs at most once and its result stays cached.
C10_Memoized == [](C10_OneLookup) /\ [][C10_CachedStays]_vars

\* A second read after a lookup that raised a model error: nothing is
\* fetched and the value is still None.
C10_Witness ==
  /\ resource = "model_error"
  /\ ev.kind = "snap_path"
  /\ Count("fetch") = 0
  /\ fetch_calls = 1
  /\ _snap_path = None

(***************************************************************************)
(* C11: snap_path yields a path only for an artifact that was found with a *)
(* size above zero.  After a first read whose size check raised, the value *)
(* cached for every later read is None and not the path whose size was     *)
(* never confirmed, so no install or upgrade event installs from a local   *)
(* artifact unless the resource is attached with a size above zero.        *)
(***************************************************************************)
C11_OnlyVerifiedPath ==
  /\ (_is_snap_path_cached /\ _snap_path # None) => resource = "nonempty"
  /\ Count("install_local") > 0 => resource = "nonempty"

(***************************************************************************)
(* C12: when render_config fails during a config-changed, relation-changed *)
(* or relation-departed event, because juju_ca_cert does not decode as     *)
(* base64 and UTF-8 or because the file cannot be opened or written, the   *)
(* error leaves the handler, the event runs no probe and sets no status,   *)
(* and the unit status is the one it had before the event.  When the       *)
(* failure is the decode, the file is not opened and keeps its content.    *)
(***************************************************************************)
DecodeErrors == {"binascii.Error", "UnicodeDecodeError"}

\* The error of decoding the juju_ca_cert option as it is set now.
CertError == DecodeCert(GetDefault(config, "juju_ca_cert", "")[1]).error

\* A reconfiguring event whose render raised: what the handler did.
C12_NoProbe ==
  (ev.kind \in ReconfigureKinds /\ Count("render_config") = 1
     /\ Count("assess_status") = 0) =>
    /\ ev.exc \in DecodeErrors \cup {"OSError"}
    /\ Count("check_output") = 0
    /\ Count("set_status") = 0
    /\ ev.exc \in DecodeErrors => (ev.exc = CertError /\ Count("open") = 0)

\* A reconfiguring event under a failing render: what it leaves behind.
\* The step is one of ConfigChanged, RelationChanged and RelationDeparted,
\* which alone set such a kind; ev'.fs is the answer of the filesystem.
C12_RenderFails ==
  (ev'.kind \in ReconfigureKinds /\ (CertError # "none" \/ ev'.fs # "ok")) =>
    /\ ev'.exc = (IF CertError # "none" THEN CertError ELSE "OSError")
    /\ Count("assess_status")' = 0
    /\ status' = status
    /\ CertError # "none" => conf_file' = conf_file

\* C12: a failed render propagates, skips the probe, keeps the status and,
\* on a decode failure, keeps the file.
C12_RenderFailure == [](C12_NoProbe) /\ [][C12_RenderFails]_vars

\* A ready unit whose file was written is given a certificate that is not
\* UTF-8: the event raises, the unit is still ready and the file is kept.
C12_Witness ==
  /\ ev.kind = "config_changed"
  /\ ev.exc = "UnicodeDecodeError"
  /\ Count("check_output") = 0
  /\ status = <<"active", "Unit ready.">>
  /\ conf_file[1] = "yaml"

====
